---- MODULE Spec2Model ----
(***************************************************************************)
(* Model of the two conformance harnesses of gemini-cli-openai:            *)
(*   src/test_api.py         GeminiAPITester  (raw HTTP, harness = "api")   *)
(*   src/test_openai_sdk.py  OpenAISDKTester  (OpenAI SDK, harness = "sdk") *)
(* and, under ConfigSpec, of the credential configurator                   *)
(*   src/configure_env.py    main                                          *)
(* One behaviour is one run of main(): run_all_tests executes the          *)
(* scenarios of the harness in statement order, each scenario turns the    *)
(* server's answer into a boolean and some printed markers, the summary is *)
(* printed and main() sets the exit status.  The server is the environment:*)
(* every answer it can give is drawn from a small set.                     *)
(***************************************************************************)
EXTENDS Integers, Sequences, FiniteSets, TLC

VARIABLES
    harness,          \* "api" (test_api.py) or "sdk" (test_openai_sdk.py);
                      \* "configure_env" under ConfigSpec
    pc,               \* position in main(): "start", "running", "summarised", "exited";
                      \* in configure_env.main: "cfg_input", "cfg_creds", "cfg_env",
                      \* "cfg_read", "cfg_loop", "cfg_write", "cfg_done", "cfg_returned"
    idx,              \* number of the next statement results.append(...) of run_all_tests
    results,          \* run_all_tests' local list of <<test_name, success>>
    success,          \* main's local: the value run_all_tests returned
    exit_code,        \* status given to exit(); NotExited while the process runs
    output,           \* everything printed so far, in order
    phase,            \* position inside test_streaming_completion: "idle" (not in it),
                      \* "reading" (waiting for the next line), "body" (in the loop
                      \* body, with the line wire[Len(wire)]), "looped", "joined"
    wire,             \* the lines (chunks) the stream's iterator has handed out so far
    elapsed,          \* wall-clock time spent in the line loop (capped at MaxElapsed)
    chunks_received,  \* local of test_streaming_completion
    content_parts,    \* local of test_streaming_completion
    full_content,     \* local of test_streaming_completion
    loopExit,         \* how the for loop was left: "none", "break", "exhausted"
    served,           \* the answers the server gave to the scenario that ran last
    fs_creds,         \* configure_env: the credential file at each path, or NoFile
    fs_env,           \* configure_env: the text of .env, or NoFile
    fs_example,       \* configure_env: the text of .env.example, or NoFile
    creds_path,       \* local of configure_env.main
    gcp_service_account_str,  \* local of configure_env.main
    env_content,      \* local of configure_env.main: the lines read from .env
    updated_env_content,      \* local of configure_env.main
    found_key,        \* local of configure_env.main
    line_no           \* configure_env: number of the line the for loop takes next

configVars == <<fs_creds, fs_env, fs_example, creds_path, gcp_service_account_str,
                env_content, updated_env_content, found_key, line_no>>

\* what the configurator never touches
harnessVars == <<harness, idx, results, success, exit_code, phase, wire, elapsed,
                 chunks_received, content_parts, full_content, loopExit, served>>

vars == <<harness, pc, idx, results, success, exit_code, output, phase, wire,
          elapsed, chunks_received, content_parts, full_content, loopExit, served,
          fs_creds, fs_env, fs_example, creds_path, gcp_service_account_str,
          env_content, updated_env_content, found_key, line_no>>

streamVars == <<phase, wire, elapsed, chunks_received, content_parts,
                full_content, loopExit>>

-----------------------------------------------------------------------------
(* Bounds of the model *)

\* most lines the server sends in one streamed body
MaxLines == 4

\* most lines of one streamed body that carry no content and no sentinel
MaxNoise == 1

\* cap of the wall-clock counter; more than TIMEOUT
MaxElapsed == 40

-----------------------------------------------------------------------------
(* Program constants *)

\* requests.post(..., timeout=30): the read timeout of the streaming request
TIMEOUT == 30

\* status given to exit() on success and on failure
EXIT_OK == 0

EXIT_FAIL == 1

NotExited == -1

TARGET_MODEL == "gemini-2.5-pro"

-----------------------------------------------------------------------------
(* Python values: None, str (a sequence of characters), dict, list, int,   *)
(* and the marker of a raised exception.                                   *)

None == [t |-> "null"]

Str(s) == [t |-> "str", v |-> s]

Num(n) == [t |-> "num", v |-> n]

Obj(f) == [t |-> "obj", f |-> f]

Arr(a) == [t |-> "arr", a |-> a]

Raise(e) == [t |-> "raise", exc |-> e]

EmptyObj == Obj(<<>>)

IsRaise(v) == v.t = "raise"

\* dict.get(k, default); any other receiver has no attribute get
Get(d, k, default) ==
    IF d.t = "raise" THEN d
    ELSE IF d.t = "obj" THEN (IF k \in DOMAIN d.f THEN d.f[k] ELSE default)
    ELSE Raise("AttributeError")

\* v[0]
Index0(v) ==
    IF v.t = "raise" THEN v
    ELSE IF v.t = "arr" THEN (IF Len(v.a) > 0 THEN v.a[1] ELSE Raise("IndexError"))
    ELSE IF v.t = "str" THEN (IF Len(v.v) > 0 THEN Str(<<v.v[1]>>) ELSE Raise("IndexError"))
    ELSE IF v.t = "obj" THEN Raise("KeyError")
    ELSE Raise("TypeError")

\* v[:50], as used in the detail of a PASS line
Slice(v) ==
    IF v.t = "raise" THEN v
    ELSE IF v.t \in {"str", "arr"} THEN v
    ELSE Raise("TypeError")

\* bool(v)
Truthy(v) ==
    CASE v.t = "null" -> FALSE
      [] v.t = "str" -> Len(v.v) > 0
      [] v.t = "num" -> v.v # 0
      [] v.t = "arr" -> Len(v.a) > 0
      [] v.t = "obj" -> DOMAIN v.f # {}
      [] OTHER -> FALSE

-----------------------------------------------------------------------------
(* What is printed.  print_result prints "PASS name" or "FAIL name" and a  *)
(* detail line; the summary prints one verdict line per result.  Of the    *)
(* detail line the log keeps only whether it reports a read timeout.       *)

TimeoutText == "Read timed out"

Marker(name, ok, detail) ==
    [kind |-> "result", name |-> name, ok |-> ok,
     detail |-> IF detail = TimeoutText THEN detail ELSE ""]

SummaryLine(name, ok) == [kind |-> "summary", name |-> name, ok |-> ok, detail |-> ""]

Message(text) == [kind |-> "message", name |-> text, ok |-> TRUE, detail |-> ""]

\* print(f"Erro inesperado: {e}")
ErrorMessage(e) == [kind |-> "message", name |-> "Erro inesperado", ok |-> FALSE, detail |-> e]

\* print_result(test_name, success, details)
print_result(name, ok, detail) == <<Marker(name, ok, detail)>>

-----------------------------------------------------------------------------
(* The outcome of the try block of a scenario: it returned a boolean or it *)
(* raised; prints are the print_result lines written on the way.           *)

Returned(ret, prints) == [raised |-> FALSE, exc |-> "", ret |-> ret, prints |-> prints]

Raised(e, prints) == [raised |-> TRUE, exc |-> e, ret |-> FALSE, prints |-> prints]

\* A mutant of ExceptException: the handler is missing, the error propagates.
ExceptExceptionMissing(body, name) == body

\* str(e): only the text of a read timeout is told apart from the others
ErrorText(e) == IF e = "ReadTimeout" THEN TimeoutText ELSE "Error"

\* except Exception as e: print_result(name, False, f"Error: {str(e)}"); return False
ExceptException(body, name) ==
    IF body.raised
    THEN Returned(FALSE, body.prints \o print_result(name, FALSE, ErrorText(body.exc)))
    ELSE body

-----------------------------------------------------------------------------
(* HTTP answers of the raw harness: the request raised (connection error,  *)
(* timeout) or a response with a status code and a body came back.         *)

TransportErrors == {"ConnectionError", "Timeout"}

HttpError(e) == [kind |-> "exc", exc |-> e]

HttpResponse(code, valid, json) ==
    [kind |-> "ok", status_code |-> code, valid |-> valid, json |-> json]

\* response.json()
ResponseJson(resp) == IF resp.valid THEN resp.json ELSE Raise("JSONDecodeError")

StatusCodes == {200, 500}

Text == <<"H", "i">>

-----------------------------------------------------------------------------
(* test_api.py: the scenarios that make one buffered request               *)

HealthBodies ==
    { <<FALSE, None>>,
      <<TRUE, Obj([status |-> Str(<<"ok">>)])>>,
      <<TRUE, EmptyObj>>,
      <<TRUE, Arr(<<>>)>> }

HealthResponses ==
    {HttpError(e) : e \in TransportErrors}
    \cup {HttpResponse(c, b[1], b[2]) : c \in StatusCodes, b \in HealthBodies}

\* the try block of test_health_endpoint
TestHealthTry(resp) ==
    IF resp.kind = "exc" THEN Raised(resp.exc, <<>>)
    ELSE IF resp.status_code = 200
    THEN LET data == ResponseJson(resp)
             status == Get(data, "status", None)
         IN  IF IsRaise(status) THEN Raised(status.exc, <<>>)
             ELSE Returned(TRUE, print_result("Health Check", TRUE, ""))
    ELSE Returned(FALSE, print_result("Health Check", FALSE, "Status"))

test_health_endpoint(resp) == ExceptException(TestHealthTry(resp), "Health Check")

RootBodies ==
    { <<FALSE, None>>,
      <<TRUE, Obj([name |-> Str(<<"gemini-cli-openai">>)])>>,
      <<TRUE, EmptyObj>> }

RootResponses ==
    {HttpError(e) : e \in TransportErrors}
    \cup {HttpResponse(c, b[1], b[2]) : c \in StatusCodes, b \in RootBodies}

\* the try block of test_root_endpoint
TestRootTry(resp) ==
    IF resp.kind = "exc" THEN Raised(resp.exc, <<>>)
    ELSE IF resp.status_code = 200
    THEN LET data == ResponseJson(resp)
             name == Get(data, "name", None)
         IN  IF IsRaise(name) THEN Raised(name.exc, <<>>)
             ELSE Returned(TRUE, print_result("Root Endpoint", TRUE, ""))
    ELSE Returned(FALSE, print_result("Root Endpoint", FALSE, "Status"))

test_root_endpoint(resp) == ExceptException(TestRootTry(resp), "Root Endpoint")

ModelEntry(id) == Obj([id |-> Str(<<id>>)])

\* model lists whose entries all carry a string id
WellFormedModelLists ==
    { <<>>,
      <<ModelEntry("gemini-2.5-flash")>>,
      <<ModelEntry(TARGET_MODEL)>>,
      <<ModelEntry("gemini-2.5-flash"), ModelEntry(TARGET_MODEL)>> }

\* an entry without id, and an entry whose id is a number
ModelLists ==
    WellFormedModelLists
    \cup { <<ModelEntry(TARGET_MODEL), EmptyObj>>,
           <<ModelEntry(TARGET_MODEL), Obj([id |-> Num(1)])>> }

ModelsBodies ==
    { <<FALSE, None>>, <<TRUE, EmptyObj>> }
    \cup { <<TRUE, Obj([data |-> Arr(l)])>> : l \in ModelLists }

ModelsResponses ==
    {HttpError(e) : e \in TransportErrors}
    \cup {HttpResponse(c, b[1], b[2]) : c \in StatusCodes, b \in ModelsBodies}

\* model['id']
ItemId(m) ==
    IF m.t = "obj" THEN (IF "id" \in DOMAIN m.f THEN m.f["id"] ELSE Raise("KeyError"))
    ELSE Raise("TypeError")

\* [model['id'] for model in v]: the list of ids, or the exception raised
ModelIds(v) ==
    IF v.t = "raise" THEN v
    ELSE IF v.t = "arr"
    THEN LET ids == [i \in 1..Len(v.a) |-> ItemId(v.a[i])]
         IN  IF \E i \in 1..Len(ids) : IsRaise(ids[i])
             THEN ids[CHOOSE i \in 1..Len(ids) :
                        IsRaise(ids[i]) /\ \A j \in 1..(i-1) : ~IsRaise(ids[j])]
             ELSE Arr(ids)
    ELSE IF ~Truthy(v) /\ v.t \in {"str", "obj"} THEN Arr(<<>>)
    ELSE Raise("TypeError")

\* x in models
Contains(list, x) == \E i \in 1..Len(list.a) : list.a[i] = x

\* ', '.join(models[:3]): every one of the first three ids must be a str
JoinFirstIds(models) ==
    IF \E i \in 1..Len(models.a) : i <= 3 /\ models.a[i].t # "str"
    THEN Raise("TypeError")
    ELSE Str(<<>>)

\* A mutant of TestModelsTry: the scenario returns True whenever the list came.
TestModelsTryAnyList(resp) ==
    IF resp.kind = "exc" THEN Raised(resp.exc, <<>>)
    ELSE IF resp.status_code = 200
    THEN LET data == ResponseJson(resp)
             models == ModelIds(Get(data, "data", Arr(<<>>)))
         IN  IF IsRaise(models) THEN Raised(models.exc, <<>>)
             ELSE Returned(TRUE, print_result("Models List", TRUE, ""))
    ELSE Returned(FALSE, print_result("Models List", FALSE, "Status"))

\* the try block of test_models_endpoint
TestModelsTry(resp) ==
    IF resp.kind = "exc" THEN Raised(resp.exc, <<>>)
    ELSE IF resp.status_code = 200
    THEN LET data == ResponseJson(resp)
             models == ModelIds(Get(data, "data", Arr(<<>>)))
         IN  IF IsRaise(models) THEN Raised(models.exc, <<>>)
             ELSE LET has_gemini_pro == Contains(models, Str(<<TARGET_MODEL>>))
                  IN  IF IsRaise(JoinFirstIds(models))
                      THEN Raised(JoinFirstIds(models).exc,
                                  print_result("Models List", TRUE, ""))
                      ELSE Returned(has_gemini_pro,
                                    print_result("Models List", TRUE, "")
                                    \o print_result("Gemini 2.5 Pro Available",
                                                    has_gemini_pro, ""))
    ELSE Returned(FALSE, print_result("Models List", FALSE, "Status"))

test_models_endpoint(resp) == ExceptException(TestModelsTry(resp), "Models List")

\* choices[0].message.content of a chat completion, in its variants
Completion(content) == Obj([choices |-> Arr(<<Obj([message |-> Obj(content)])>>)])

CompletionBodies ==
    { <<FALSE, None>>,
      <<TRUE, EmptyObj>>,
      <<TRUE, Arr(<<>>)>>,
      <<TRUE, Obj([choices |-> Arr(<<>>)])>>,
      <<TRUE, Completion(<<>>)>>,
      <<TRUE, Completion([content |-> None])>>,
      <<TRUE, Completion([content |-> Str(<<>>)])>>,
      <<TRUE, Completion([content |-> Str(Text)])>> }

CompletionResponses ==
    {HttpError(e) : e \in TransportErrors}
    \cup {HttpResponse(c, b[1], b[2]) : c \in StatusCodes, b \in CompletionBodies}

\* data.get('choices', [{}])[0].get('message', {}).get('content', '')
MessageContent(data) ==
    Get(Get(Index0(Get(data, "choices", Arr(<<EmptyObj>>))), "message", EmptyObj),
        "content", Str(<<>>))

\* the try block of test_simple_completion, test_thinking_mode, test_conversation
TestCompletionTry(resp, name) ==
    IF resp.kind = "exc" THEN Raised(resp.exc, <<>>)
    ELSE IF resp.status_code = 200
    THEN LET content == MessageContent(ResponseJson(resp))
             shown == Slice(content)
         IN  IF IsRaise(shown) THEN Raised(shown.exc, <<>>)
             ELSE Returned(TRUE, print_result(name, TRUE, ""))
    ELSE Returned(FALSE, print_result(name, FALSE, "Status"))

test_simple_completion(resp) ==
    ExceptException(TestCompletionTry(resp, "Simple Completion"), "Simple Completion")

test_thinking_mode(resp) ==
    ExceptException(TestCompletionTry(resp, "Thinking Mode"), "Thinking Mode")

test_conversation(resp) ==
    ExceptException(TestCompletionTry(resp, "Multi-turn Conversation"),
                    "Multi-turn Conversation")

DebugResponses ==
    {HttpError(e) : e \in TransportErrors}
    \cup {HttpResponse(c, TRUE, EmptyObj) : c \in StatusCodes}

\* the try block of test_debug_endpoints
TestDebugTry(cache_response, token_response) ==
    IF cache_response.kind = "exc" THEN Raised(cache_response.exc, <<>>)
    ELSE IF token_response.kind = "exc" THEN Raised(token_response.exc, <<>>)
    ELSE LET cache_success == cache_response.status_code = 200
             token_success == token_response.status_code = 200
         IN  Returned(cache_success /\ token_success,
                      print_result("Debug - Cache Status", cache_success, "")
                      \o print_result("Debug - Token Test", token_success, ""))

test_debug_endpoints(cache_response, token_response) ==
    ExceptException(TestDebugTry(cache_response, token_response), "Debug Endpoints")

-----------------------------------------------------------------------------
(* The streamed body.  A line of the raw harness is blank, a line without  *)
(* the prefix "data: ", or "data: " followed by a payload that may be      *)
(* padded with white space; the payload is the sentinel, text that is not  *)
(* JSON, or a JSON value.                                                  *)

Payload(text, valid, json) == [text |-> text, valid |-> valid, json |-> json]

DataLine(pad, payload) == [blank |-> FALSE, prefix |-> "data: ", pad |-> pad, payload |-> payload]

BlankLine == [blank |-> TRUE, prefix |-> "", pad |-> FALSE, payload |-> Payload("", FALSE, None)]

CommentLine == [blank |-> FALSE, prefix |-> ": ", pad |-> FALSE, payload |-> Payload("ping", FALSE, None)]

DonePayload == Payload("[DONE]", FALSE, None)

\* a chunk {"choices": [{"delta": delta}]}
Chunk(delta) == Payload("json", TRUE, Obj([choices |-> Arr(<<Obj([delta |-> Obj(delta)])>>)]))

Fragments == { <<"a">>, <<" ", "b">> }

ContentLines ==
    { DataLine(FALSE, Chunk([content |-> Str(f)])) : f \in Fragments }

QuietLines ==
    { DataLine(FALSE, Chunk([content |-> Str(<<>>)])),
      DataLine(FALSE, Chunk([content |-> None])),
      DataLine(FALSE, Chunk(<<>>)) }

MalformedLine == DataLine(FALSE, Payload("{oops", FALSE, None))

\* valid JSON without a first choice: choices[0] raises
ShapelessLine == DataLine(FALSE, Payload("json", TRUE, Obj([choices |-> Arr(<<>>)])))

DoneLines == { DataLine(FALSE, DonePayload), DataLine(TRUE, DonePayload) }

\* lines that carry neither content nor the sentinel
NoiseLines == {BlankLine, CommentLine, MalformedLine} \cup QuietLines

NoiseCount(w) == Cardinality({i \in 1..Len(w) : w[i] \in NoiseLines})

\* the lines the server may send after w
MayFollow(w, lines) ==
    IF Len(w) >= MaxLines THEN {}
    ELSE IF NoiseCount(w) >= MaxNoise THEN lines \ NoiseLines
    ELSE lines

\* what the server may send to the raw harness
ApiLines ==
    {BlankLine, CommentLine, MalformedLine, ShapelessLine}
    \cup ContentLines \cup QuietLines \cup DoneLines

\* what the SDK's decoder hands to the harness: chunks, and the sentinel
\* that makes the SDK end the iteration
SdkLines ==
    {ShapelessLine, DataLine(FALSE, DonePayload)}
    \cup ContentLines
    \cup { DataLine(FALSE, Chunk([content |-> Str(<<>>)])),
           DataLine(FALSE, Chunk([content |-> None])) }

\* time between two lines of a slow server; less than TIMEOUT
SlowGap == 20

Gaps == {0, SlowGap}

Min(a, b) == IF a < b THEN a ELSE b

\* line.startswith('data: ')
StartsWithData(line) == line.prefix = "data: "

\* line[6:]
DataStr(line) == [pad |-> line.pad, payload |-> line.payload]

\* data_str.strip()
Strip(data_str) == data_str.payload.text

\* json.loads(data_str)
JsonLoads(data_str) ==
    IF data_str.payload.valid THEN data_str.payload.json ELSE Raise("JSONDecodeError")

\* data.get('choices', [{}])[0].get('delta', {}).get('content', '')
DeltaContent(data) ==
    Get(Get(Index0(Get(data, "choices", Arr(<<EmptyObj>>))), "delta", EmptyObj),
        "content", Str(<<>>))

\* A mutant of LineStep: the sentinel does not leave the loop; it is parsed
\* like any other payload and the JSON error sends the loop to the next line.
LineStepNoBreak(line) ==
    IF line.blank THEN [do |-> "skip", content |-> None, exc |-> ""]
    ELSE IF ~StartsWithData(line) THEN [do |-> "skip", content |-> None, exc |-> ""]
    ELSE LET data == JsonLoads(DataStr(line)) IN
         IF IsRaise(data) /\ data.exc = "JSONDecodeError"
         THEN [do |-> "continue", content |-> None, exc |-> ""]
         ELSE LET chunk_content == DeltaContent(data) IN
              IF IsRaise(chunk_content)
              THEN [do |-> "raise", content |-> None, exc |-> chunk_content.exc]
              ELSE IF Truthy(chunk_content)
              THEN [do |-> "append", content |-> chunk_content, exc |-> ""]
              ELSE [do |-> "skip", content |-> None, exc |-> ""]

\* A mutant of LineStep: a JSON error is not caught.
LineStepNoCatch(line) ==
    IF line.blank THEN [do |-> "skip", content |-> None, exc |-> ""]
    ELSE IF ~StartsWithData(line) THEN [do |-> "skip", content |-> None, exc |-> ""]
    ELSE LET data_str == DataStr(line) IN
         IF Strip(data_str) = "[DONE]" THEN [do |-> "break", content |-> None, exc |-> ""]
         ELSE LET data == JsonLoads(data_str) IN
              IF IsRaise(data)
              THEN [do |-> "raise", content |-> None, exc |-> data.exc]
              ELSE LET chunk_content == DeltaContent(data) IN
                   IF IsRaise(chunk_content)
                   THEN [do |-> "raise", content |-> None, exc |-> chunk_content.exc]
                   ELSE IF Truthy(chunk_content)
                   THEN [do |-> "append", content |-> chunk_content, exc |-> ""]
                   ELSE [do |-> "skip", content |-> None, exc |-> ""]

\* the body of `for line in response.iter_lines()` of test_api.py: what one
\* pass does with a line
\*   "skip"      nothing is accumulated (blank, no prefix, falsy content)
\*   "break"     the sentinel
\*   "continue"  json.JSONDecodeError was caught
\*   "append"    the content is accumulated and counted
\*   "raise"     another exception leaves the loop and the try block
LineStep(line) ==
    IF line.blank THEN [do |-> "skip", content |-> None, exc |-> ""]
    ELSE IF ~StartsWithData(line) THEN [do |-> "skip", content |-> None, exc |-> ""]
    ELSE LET data_str == DataStr(line) IN
         IF Strip(data_str) = "[DONE]" THEN [do |-> "break", content |-> None, exc |-> ""]
         ELSE LET data == JsonLoads(data_str) IN
              IF IsRaise(data) /\ data.exc = "JSONDecodeError"
              THEN [do |-> "continue", content |-> None, exc |-> ""]
              ELSE LET chunk_content == DeltaContent(data) IN
                   IF IsRaise(chunk_content)
                   THEN [do |-> "raise", content |-> None, exc |-> chunk_content.exc]
                   ELSE IF Truthy(chunk_content)
                   THEN [do |-> "append", content |-> chunk_content, exc |-> ""]
                   ELSE [do |-> "skip", content |-> None, exc |-> ""]

\* chunk.choices[0].delta.content of an SDK chunk object
SdkDeltaContent(chunk) ==
    LET choices == chunk.f["choices"] IN
    IF Len(choices.a) = 0 THEN Raise("IndexError")
    ELSE LET delta == choices.a[1].f["delta"] IN
         IF "content" \in DOMAIN delta.f THEN delta.f["content"] ELSE None

\* the body of `for chunk in stream` of test_openai_sdk.py
ChunkStep(line) ==
    LET content == SdkDeltaContent(line.payload.json) IN
    IF IsRaise(content) THEN [do |-> "raise", content |-> None, exc |-> content.exc]
    ELSE IF content # None THEN [do |-> "append", content |-> content, exc |-> ""]
    ELSE [do |-> "skip", content |-> None, exc |-> ""]

\* A mutant of Join: each part is trimmed before it is joined.
RECURSIVE JoinTrimmed(_)
JoinTrimmed(parts) ==
    IF Len(parts) = 0 THEN Str(<<>>)
    ELSE LET rest == JoinTrimmed(Tail(parts))
             h == SelectSeq(Head(parts).v, LAMBDA c : c # " ")
         IN  Str(h \o rest.v)

\* ''.join(content_parts)
RECURSIVE Join(_)
Join(parts) ==
    IF Len(parts) = 0 THEN Str(<<>>)
    ELSE LET rest == Join(Tail(parts)) IN
         IF IsRaise(rest) THEN rest
         ELSE IF Head(parts).t # "str" THEN Raise("TypeError")
         ELSE Str(Head(parts).v \o rest.v)

-----------------------------------------------------------------------------
(* test_openai_sdk.py: the SDK call raised, or returned a parsed object    *)

SdkErrors == {"APIConnectionError", "APIStatusError", "APITimeoutError"}

SdkObject(fields) == [kind |-> "ok", status_code |-> 200, valid |-> TRUE, json |-> Obj(fields)]

SdkModelsResponses ==
    {HttpError(e) : e \in SdkErrors}
    \cup { SdkObject([data |-> Arr(l)]) : l \in WellFormedModelLists }

\* the try block of test_list_models
TestListModelsTry(resp) ==
    IF resp.kind = "exc" THEN Raised(resp.exc, <<>>)
    ELSE LET model_ids == ModelIds(resp.json.f["data"])
             has_gemini_pro == Contains(model_ids, Str(<<TARGET_MODEL>>))
         IN  Returned(has_gemini_pro,
                      print_result("SDK - List Models", TRUE, "")
                      \o print_result("SDK - Gemini 2.5 Pro Available",
                                      has_gemini_pro, ""))

test_list_models(resp) == ExceptException(TestListModelsTry(resp), "SDK - List Models")

SdkChoices ==
    { <<>>,
      <<Obj([message |-> Obj([content |-> None])])>>,
      <<Obj([message |-> Obj([content |-> Str(<<>>)])])>>,
      <<Obj([message |-> Obj([content |-> Str(Text)])])>> }

Usage(p, c, t) ==
    Obj([prompt_tokens |-> Num(p), completion_tokens |-> Num(c), total_tokens |-> Num(t)])

Usages == {None, Usage(10, 5, 15), Usage(10, 5, 14), Usage(0, 0, 0)}

SdkCompletionResponses ==
    {HttpError(e) : e \in SdkErrors}
    \cup { SdkObject([choices |-> Arr(c), usage |-> None]) : c \in SdkChoices }

SdkUsageResponses ==
    {HttpError(e) : e \in SdkErrors}
    \cup { SdkObject([choices |-> Arr(<<Obj([message |-> Obj([content |-> Str(Text)])])>>),
                      usage |-> u]) : u \in Usages }

\* response.choices[0].message.content
SdkMessageContent(resp) ==
    LET choices == resp.json.f["choices"] IN
    IF Len(choices.a) = 0 THEN Raise("IndexError")
    ELSE choices.a[1].f["message"].f["content"]

\* the try block of test_simple_completion, test_system_message,
\* test_conversation_history and test_thinking_mode of the SDK harness
TestSdkCompletionTry(resp, name) ==
    IF resp.kind = "exc" THEN Raised(resp.exc, <<>>)
    ELSE LET content == SdkMessageContent(resp)
             shown == Slice(content)
         IN  IF IsRaise(shown) THEN Raised(shown.exc, <<>>)
             ELSE Returned(TRUE, print_result(name, TRUE, ""))

sdk_test_simple_completion(resp) ==
    ExceptException(TestSdkCompletionTry(resp, "SDK - Simple Completion"),
                    "SDK - Simple Completion")

test_system_message(resp) ==
    ExceptException(TestSdkCompletionTry(resp, "SDK - System Message"),
                    "SDK - System Message")

test_conversation_history(resp) ==
    ExceptException(TestSdkCompletionTry(resp, "SDK - Conversation History"),
                    "SDK - Conversation History")

sdk_test_thinking_mode(resp) ==
    ExceptException(TestSdkCompletionTry(resp, "SDK - Thinking Mode"),
                    "SDK - Thinking Mode")

\* the try block of test_different_temperatures
TestTemperaturesTry(response_low, response_high) ==
    IF response_low.kind = "exc" THEN Raised(response_low.exc, <<>>)
    ELSE IF response_high.kind = "exc" THEN Raised(response_high.exc, <<>>)
    ELSE LET content_low == SdkMessageContent(response_low)
             content_high == SdkMessageContent(response_high)
         IN  IF IsRaise(content_low) THEN Raised(content_low.exc, <<>>)
             ELSE IF IsRaise(content_high) THEN Raised(content_high.exc, <<>>)
             ELSE Returned(TRUE, print_result("SDK - Temperature Control", TRUE, ""))

test_different_temperatures(response_low, response_high) ==
    ExceptException(TestTemperaturesTry(response_low, response_high),
                    "SDK - Temperature Control")

\* the try block of test_token_usage_info
TestTokenUsageTry(resp) ==
    IF resp.kind = "exc" THEN Raised(resp.exc, <<>>)
    ELSE LET usage == resp.json.f["usage"] IN
         IF Truthy(usage)
         THEN Returned(TRUE, print_result("SDK - Token Usage Info", TRUE, ""))
         ELSE Returned(FALSE, print_result("SDK - Token Usage Info", FALSE, ""))

test_token_usage_info(resp) ==
    ExceptException(TestTokenUsageTry(resp), "SDK - Token Usage Info")

-----------------------------------------------------------------------------
(* run_all_tests and main                                                  *)

\* the names given to results.append, in statement order
ApiCatalogue ==
    << "Health Check", "Root Endpoint", "Models List", "Simple Completion",
       "Streaming Completion", "Thinking Mode", "Multi-turn Conversation",
       "Debug Endpoints" >>

SdkCatalogue ==
    << "List Models", "Simple Completion", "Streaming Completion", "System Message",
       "Conversation History", "Thinking Mode", "Temperature Control",
       "Token Usage Info" >>

Catalogue == IF harness = "api" THEN ApiCatalogue ELSE SdkCatalogue

\* the print_section call that precedes statement i, if any
SectionBefore(h, i) ==
    IF h = "api"
    THEN (CASE i = 1 -> <<Message("Testes Basicos")>>
            [] i = 4 -> <<Message("Testes de Completion")>>
            [] i = 8 -> <<Message("Testes de Debug")>>
            [] i = 9 -> <<Message("Resumo dos Testes")>>
            [] OTHER -> <<>>)
    ELSE (CASE i = 1 -> <<Message("Testes Basicos do SDK")>>
            [] i = 4 -> <<Message("Testes Avancados")>>
            [] i = 9 -> <<Message("Resumo dos Testes SDK")>>
            [] OTHER -> <<>>)

StreamIdle ==
    /\ phase = "idle"
    /\ wire = <<>>
    /\ elapsed = 0
    /\ chunks_received = 0
    /\ content_parts = <<>>
    /\ full_content = Str(<<>>)
    /\ loopExit = "none"

\* the locals of test_streaming_completion go out of scope
StreamReset ==
    /\ phase' = "idle"
    /\ wire' = <<>>
    /\ elapsed' = 0
    /\ chunks_received' = 0
    /\ content_parts' = <<>>
    /\ full_content' = Str(<<>>)
    /\ loopExit' = "none"

\* a path with no file behind it
NoFile == [exists |-> FALSE]

Init ==
    /\ harness \in {"api", "sdk"}
    /\ fs_creds = <<>>
    /\ fs_env = NoFile
    /\ fs_example = NoFile
    /\ creds_path = <<>>
    /\ gcp_service_account_str = <<>>
    /\ env_content = <<>>
    /\ updated_env_content = <<>>
    /\ found_key = FALSE
    /\ line_no = 0
    /\ pc = "start"
    /\ idx = 1
    /\ results = <<>>
    /\ success = FALSE
    /\ exit_code = NotExited
    /\ output = <<>>
    /\ served = <<>>
    /\ StreamIdle

\* main's handler: except Exception as e: print(...); exit(1)
MainExceptException(printed, e) ==
    /\ output' = output \o printed \o <<ErrorMessage(e)>>
    /\ exit_code' = EXIT_FAIL
    /\ pc' = "exited"
    /\ UNCHANGED <<harness, idx, results, success>>

\* results.append((name, scenario())): the scenario returned o; an exception
\* that leaves the scenario leaves run_all_tests too and reaches main
Append_result(o) ==
    IF o.raised
    THEN MainExceptException(SectionBefore(harness, idx) \o o.prints, o.exc)
    ELSE /\ results' = Append(results, <<Catalogue[idx], o.ret>>)
         /\ output' = output \o SectionBefore(harness, idx) \o o.prints
         /\ idx' = idx + 1
         /\ UNCHANGED <<harness, pc, success, exit_code>>

At(h, i) == pc = "running" /\ harness = h /\ idx = i /\ phase = "idle"

\* the three header lines of run_all_tests; results = []
Begin ==
    /\ UNCHANGED configVars
    /\ pc = "start"
    /\ pc' = "running"
    /\ results' = <<>>
    /\ output' = output \o <<Message("Iniciando testes")>>
    /\ UNCHANGED <<harness, idx, success, exit_code, served, streamVars>>

ApiHealth ==
    /\ UNCHANGED configVars
    /\ At("api", 1)
    /\ \E resp \in HealthResponses :
          /\ served' = <<resp>>
          /\ Append_result(test_health_endpoint(resp))
    /\ UNCHANGED streamVars

ApiRoot ==
    /\ UNCHANGED configVars
    /\ At("api", 2)
    /\ \E resp \in RootResponses :
          /\ served' = <<resp>>
          /\ Append_result(test_root_endpoint(resp))
    /\ UNCHANGED streamVars

ApiModels ==
    /\ UNCHANGED configVars
    /\ At("api", 3)
    /\ \E resp \in ModelsResponses :
          /\ served' = <<resp>>
          /\ Append_result(test_models_endpoint(resp))
    /\ UNCHANGED streamVars

ApiSimple ==
    /\ UNCHANGED configVars
    /\ At("api", 4)
    /\ \E resp \in CompletionResponses :
          /\ served' = <<resp>>
          /\ Append_result(test_simple_completion(resp))
    /\ UNCHANGED streamVars

ApiThinking ==
    /\ UNCHANGED configVars
    /\ At("api", 6)
    /\ \E resp \in CompletionResponses :
          /\ served' = <<resp>>
          /\ Append_result(test_thinking_mode(resp))
    /\ UNCHANGED streamVars

ApiConversation ==
    /\ UNCHANGED configVars
    /\ At("api", 7)
    /\ \E resp \in CompletionResponses :
          /\ served' = <<resp>>
          /\ Append_result(test_conversation(resp))
    /\ UNCHANGED streamVars

ApiDebug ==
    /\ UNCHANGED configVars
    /\ At("api", 8)
    /\ \E cache_response \in DebugResponses, token_response \in DebugResponses :
          /\ served' = <<cache_response, token_response>>
          /\ Append_result(test_debug_endpoints(cache_response, token_response))
    /\ UNCHANGED streamVars

SdkListModels ==
    /\ UNCHANGED configVars
    /\ At("sdk", 1)
    /\ \E resp \in SdkModelsResponses :
          /\ served' = <<resp>>
          /\ Append_result(test_list_models(resp))
    /\ UNCHANGED streamVars

SdkSimple ==
    /\ UNCHANGED configVars
    /\ At("sdk", 2)
    /\ \E resp \in SdkCompletionResponses :
          /\ served' = <<resp>>
          /\ Append_result(sdk_test_simple_completion(resp))
    /\ UNCHANGED streamVars

SdkSystemMessage ==
    /\ UNCHANGED configVars
    /\ At("sdk", 4)
    /\ \E resp \in SdkCompletionResponses :
          /\ served' = <<resp>>
          /\ Append_result(test_system_message(resp))
    /\ UNCHANGED streamVars

SdkConversationHistory ==
    /\ UNCHANGED configVars
    /\ At("sdk", 5)
    /\ \E resp \in SdkCompletionResponses :
          /\ served' = <<resp>>
          /\ Append_result(test_conversation_history(resp))
    /\ UNCHANGED streamVars

SdkThinking ==
    /\ UNCHANGED configVars
    /\ At("sdk", 6)
    /\ \E resp \in SdkCompletionResponses :
          /\ served' = <<resp>>
          /\ Append_result(sdk_test_thinking_mode(resp))
    /\ UNCHANGED streamVars

SdkTemperatures ==
    /\ UNCHANGED configVars
    /\ At("sdk", 7)
    /\ \E response_low \in SdkCompletionResponses, response_high \in SdkCompletionResponses :
          /\ served' = <<response_low, response_high>>
          /\ Append_result(test_different_temperatures(response_low, response_high))
    /\ UNCHANGED streamVars

SdkTokenUsage ==
    /\ UNCHANGED configVars
    /\ At("sdk", 8)
    /\ \E resp \in SdkUsageResponses :
          /\ served' = <<resp>>
          /\ Append_result(test_token_usage_info(resp))
    /\ UNCHANGED streamVars

-----------------------------------------------------------------------------
(* test_streaming_completion, one step per pass of its loop                *)

StreamResponses ==
    {HttpError(e) : e \in TransportErrors}
    \cup {HttpResponse(c, FALSE, None) : c \in StatusCodes}

\* content_parts.append(chunk_content)
Accumulate(parts, content) == Append(parts, content)

\* return chunks_received > 0
StreamVerdict(n) == n > 0

\* from the end of the loop to the return of test_streaming_completion
StreamTail(name, n) == Returned(StreamVerdict(n), print_result(name, TRUE, ""))

StreamName == IF harness = "api" THEN "Streaming Completion" ELSE "SDK - Streaming Completion"

\* an exception inside the try block while the stream is open
StreamRaise(e) ==
    /\ Append_result(ExceptException(Raised(e, <<>>), StreamName))
    /\ StreamReset
    /\ UNCHANGED served

\* requests.post(..., timeout=30, stream=True) and the test of the status code
ApiStreamRequest ==
    /\ UNCHANGED configVars
    /\ At("api", 5)
    /\ \E resp \in StreamResponses :
          /\ served' = <<resp>>
          /\ IF resp.kind = "exc"
             THEN /\ Append_result(ExceptException(Raised(resp.exc, <<>>), StreamName))
                  /\ UNCHANGED streamVars
             ELSE IF resp.status_code # 200
             THEN /\ Append_result(ExceptException(
                         Returned(FALSE, print_result(StreamName, FALSE, "Status")),
                         StreamName))
                  /\ UNCHANGED streamVars
             ELSE /\ phase' = "reading"
                  /\ chunks_received' = 0
                  /\ content_parts' = <<>>
                  /\ UNCHANGED <<wire, elapsed, full_content, loopExit>>
                  /\ UNCHANGED <<harness, pc, idx, results, success, exit_code, output>>

\* client.chat.completions.create(..., stream=True)
SdkStreamRequest ==
    /\ UNCHANGED configVars
    /\ At("sdk", 3)
    /\ \E resp \in {HttpError(e) : e \in SdkErrors} \cup {HttpResponse(200, FALSE, None)} :
          /\ served' = <<resp>>
          /\ IF resp.kind = "exc"
             THEN /\ Append_result(ExceptException(Raised(resp.exc, <<>>), StreamName))
                  /\ UNCHANGED streamVars
             ELSE /\ phase' = "reading"
                  /\ chunks_received' = 0
                  /\ content_parts' = <<>>
                  /\ UNCHANGED <<wire, elapsed, full_content, loopExit>>
                  /\ UNCHANGED <<harness, pc, idx, results, success, exit_code, output>>

Reading(h) == pc = "running" /\ harness = h /\ phase = "reading"

\* the line the loop body works on
CurrentLine == wire[Len(wire)]

\* response.iter_lines() hands out the next line: the server sent it gap time
\* units after the previous one, before the read timeout
StreamNext ==
    /\ UNCHANGED configVars
    /\ Reading("api")
    /\ \E line \in MayFollow(wire, ApiLines), gap \in Gaps :
          /\ wire' = Append(wire, line)
          /\ elapsed' = Min(elapsed + gap, MaxElapsed)
    /\ phase' = "body"
    /\ UNCHANGED <<chunks_received, content_parts, full_content, loopExit, served>>
    /\ UNCHANGED <<harness, pc, idx, results, success, exit_code, output>>

\* the body of `for line in response.iter_lines()`, for the line handed out
StreamBody ==
    /\ UNCHANGED configVars
    /\ pc = "running"
    /\ harness = "api"
    /\ phase = "body"
    /\ LET step == LineStep(CurrentLine) IN
       IF step.do = "raise" THEN StreamRaise(step.exc)
       ELSE /\ IF step.do = "append"
               THEN /\ content_parts' = Accumulate(content_parts, step.content)
                    /\ chunks_received' = chunks_received + 1
               ELSE UNCHANGED <<content_parts, chunks_received>>
            /\ IF step.do = "break"
               THEN phase' = "looped" /\ loopExit' = "break"
               ELSE phase' = "reading" /\ UNCHANGED loopExit
            /\ UNCHANGED <<wire, elapsed, full_content, served>>
            /\ UNCHANGED <<harness, pc, idx, results, success, exit_code, output>>

\* the SDK's stream hands out the next chunk; at the sentinel it ends the iteration
SdkNext ==
    /\ UNCHANGED configVars
    /\ Reading("sdk")
    /\ \E line \in MayFollow(wire, SdkLines) :
          /\ wire' = Append(wire, line)
          /\ IF Strip(DataStr(line)) = "[DONE]"
             THEN phase' = "looped" /\ loopExit' = "exhausted"
             ELSE phase' = "body" /\ UNCHANGED loopExit
    /\ UNCHANGED <<elapsed, chunks_received, content_parts, full_content, served>>
    /\ UNCHANGED <<harness, pc, idx, results, success, exit_code, output>>

\* the body of `for chunk in stream`, for the chunk handed out
SdkBody ==
    /\ UNCHANGED configVars
    /\ pc = "running"
    /\ harness = "sdk"
    /\ phase = "body"
    /\ LET step == ChunkStep(CurrentLine) IN
       IF step.do = "raise" THEN StreamRaise(step.exc)
       ELSE /\ IF step.do = "append"
               THEN /\ content_parts' = Accumulate(content_parts, step.content)
                    /\ chunks_received' = chunks_received + 1
               ELSE UNCHANGED <<content_parts, chunks_received>>
            /\ phase' = "reading"
            /\ UNCHANGED <<wire, elapsed, full_content, loopExit, served>>
            /\ UNCHANGED <<harness, pc, idx, results, success, exit_code, output>>

\* the server closed the connection: the iterator is exhausted
StreamExhausted ==
    /\ UNCHANGED configVars
    /\ pc = "running"
    /\ phase = "reading"
    /\ phase' = "looped"
    /\ loopExit' = "exhausted"
    /\ UNCHANGED <<wire, elapsed, chunks_received, content_parts, full_content, served>>
    /\ UNCHANGED <<harness, pc, idx, results, success, exit_code, output>>

\* the server sends nothing for TIMEOUT time units: the read raises
StreamReadTimeout ==
    /\ UNCHANGED configVars
    /\ Reading("api")
    /\ StreamRaise("ReadTimeout")

\* the SDK raises while the stream is iterated
SdkStreamError ==
    /\ UNCHANGED configVars
    /\ Reading("sdk")
    /\ StreamRaise("APIError")

\* full_content = ''.join(content_parts)
StreamJoin ==
    /\ UNCHANGED configVars
    /\ pc = "running"
    /\ phase = "looped"
    /\ LET joined == Join(content_parts) IN
       IF IsRaise(joined) THEN StreamRaise(joined.exc)
       ELSE /\ full_content' = joined
            /\ phase' = "joined"
            /\ UNCHANGED <<wire, elapsed, chunks_received, content_parts,
                           loopExit, served>>
            /\ UNCHANGED <<harness, pc, idx, results, success, exit_code, output>>

\* print_result(..., True, ...); return chunks_received > 0
StreamReturn ==
    /\ UNCHANGED configVars
    /\ pc = "running"
    /\ phase = "joined"
    /\ Append_result(ExceptException(StreamTail(StreamName, chunks_received), StreamName))
    /\ StreamReset
    /\ UNCHANGED served

-----------------------------------------------------------------------------
(* The summary, the exit status, and the two ways a run is cut short       *)

Passed(res) == Cardinality({i \in 1..Len(res) : res[i][2]})

\* A mutant of RunVerdict: one passing scenario is enough.
RunVerdictAny(res) == Passed(res) > 0

\* return passed == total
RunVerdict(res) == Passed(res) = Len(res)

\* the loop that prints one verdict line per result, and the two lines after it
SummaryLines(res) ==
    [i \in 1..Len(res) |-> SummaryLine(res[i][1], res[i][2])]
    \o <<Message("Resultado")>>
    \o <<Message(IF Passed(res) = Len(res) THEN "Todos os testes passaram"
                                         ELSE "Alguns testes falharam")>>

\* exit_code = 0 if success else 1
ExitCode(ok) == IF ok THEN EXIT_OK ELSE EXIT_FAIL

\* the end of run_all_tests, from print_section("Resumo dos Testes")
Summary ==
    /\ UNCHANGED configVars
    /\ pc = "running"
    /\ phase = "idle"
    /\ idx = Len(Catalogue) + 1
    /\ output' = output \o SectionBefore(harness, idx) \o SummaryLines(results)
    /\ success' = RunVerdict(results)
    /\ pc' = "summarised"
    /\ UNCHANGED <<harness, idx, results, exit_code, served, streamVars>>

\* exit(exit_code)
MainExit ==
    /\ UNCHANGED configVars
    /\ pc = "summarised"
    /\ exit_code' = ExitCode(success)
    /\ pc' = "exited"
    /\ UNCHANGED <<harness, idx, results, success, output, served, streamVars>>

\* Ctrl-C at any point of the run: main's except KeyboardInterrupt
KeyboardInterrupt ==
    /\ UNCHANGED configVars
    /\ pc \in {"start", "running", "summarised"}
    /\ output' = output \o <<Message("Testes interrompidos pelo usuario")>>
    /\ exit_code' = EXIT_FAIL
    /\ pc' = "exited"
    /\ StreamReset
    /\ UNCHANGED <<harness, idx, results, success, served>>

\* a print of run_all_tests raises (standard output is closed, or cannot
\* encode the text, an OSError or a UnicodeEncodeError): main's except Exception
UnexpectedError ==
    /\ UNCHANGED configVars
    /\ \/ pc = "start"
       \/ pc = "running" /\ phase = "idle" /\ SectionBefore(harness, idx) # <<>>
    /\ MainExceptException(<<>>, "OSError")
    /\ UNCHANGED <<served, streamVars>>

Next ==
    \/ Begin
    \/ ApiHealth
    \/ ApiRoot
    \/ ApiModels
    \/ ApiSimple
    \/ ApiStreamRequest
    \/ StreamNext
    \/ StreamBody
    \/ StreamExhausted
    \/ StreamReadTimeout
    \/ StreamJoin
    \/ StreamReturn
    \/ ApiThinking
    \/ ApiConversation
    \/ ApiDebug
    \/ SdkListModels
    \/ SdkSimple
    \/ SdkStreamRequest
    \/ SdkNext
    \/ SdkBody
    \/ SdkStreamError
    \/ SdkSystemMessage
    \/ SdkConversationHistory
    \/ SdkThinking
    \/ SdkTemperatures
    \/ SdkTokenUsage
    \/ Summary
    \/ MainExit
    \/ KeyboardInterrupt
    \/ UnexpectedError

Spec == Init /\ [][Next]_vars

-----------------------------------------------------------------------------
(* configure_env.py.  A text is a sequence of tokens (a word, a blank, a   *)
(* newline, a punctuation mark); a file is absent or holds a text.  One    *)
(* behaviour of ConfigSpec is one run of configure_env.main.               *)

\* most lines of .env before the run
MaxEnvLines == 3

File(text) == [exists |-> TRUE, text |-> text]

KEY == "GCP_SERVICE_ACCOUNT"

DefaultCredsPath == <<"~/.gemini/oauth_creds.json">>

\* what the user types at the prompt
TypedPaths == { <<>>, <<" ">>, <<"creds.json", " ">> }

\* a credential file: the JSON object it holds (a dict whose members keep
\* their order), or a text that is not JSON
CredsFile(valid, json) == [exists |-> TRUE, valid |-> valid, json |-> json]

CredsFiles ==
    { NoFile,
      CredsFile(FALSE, None),
      CredsFile(TRUE, [t |-> "dict",
                       members |-> << <<"access_token", "ya29">>,
                                      <<"refresh_token", "1//0g">> >>]) }

\* str.strip()
RECURSIVE LStrip(_)
LStrip(s) == IF Len(s) > 0 /\ Head(s) \in {" ", "\n"} THEN LStrip(Tail(s)) ELSE s

RECURSIVE RStrip(_)
RStrip(s) ==
    IF Len(s) > 0 /\ s[Len(s)] \in {" ", "\n"} THEN RStrip(SubSeq(s, 1, Len(s) - 1)) ELSE s

StrStrip(s) == RStrip(LStrip(s))

\* s.startswith('GCP_SERVICE_ACCOUNT=')
StartsWithKey(s) == Len(s) >= 2 /\ s[1] = KEY /\ s[2] = "="

\* json.load(f)
JsonLoad(file) == IF file.valid THEN file.json ELSE Raise("JSONDecodeError")

\* json.dumps(creds_json, separators=(',', ':')): no blank after , and :
RECURSIVE DumpsMembers(_)
DumpsMembers(members) ==
    IF Len(members) = 0 THEN <<>>
    ELSE <<"\"", Head(members)[1], "\"", ":", "\"", Head(members)[2], "\"">>
         \o (IF Len(members) > 1 THEN <<",">> ELSE <<>>)
         \o DumpsMembers(Tail(members))

JsonDumps(creds_json) == <<"{">> \o DumpsMembers(creds_json.members) \o <<"}">>

\* f"GCP_SERVICE_ACCOUNT='{gcp_service_account_str}'\n"
KeyLine(value) == <<KEY, "=", "'">> \o value \o <<"'", "\n">>

\* the lines a .env may hold before the run
EnvLines ==
    { <<KEY, "=", "old", "\n">>,
      <<" ", KEY, "=", "old", "\n">>,
      <<"#", KEY, "=", "\n">>,
      <<"PORT", "=", "3000", "\n">>,
      <<"\n">> }

\* f.writelines(lines): the lines one after the other
RECURSIVE WriteLines(_)
WriteLines(lines) ==
    IF Len(lines) = 0 THEN <<>> ELSE Head(lines) \o WriteLines(Tail(lines))

LineLists(n) == UNION { [1..k -> EnvLines] : k \in 0..n }

\* the texts of .env before the run; the last line may lack its newline
EnvTexts ==
    { WriteLines(ls) : ls \in LineLists(MaxEnvLines) }
    \cup { WriteLines(ls) \o <<"OPENAI_API_KEY", "=", "sk">> :
              ls \in LineLists(MaxEnvLines - 1) }

ExampleTexts ==
    { <<"PORT", "=", "3000", "\n">>,
      <<"PORT", "=", "3000", "\n", KEY, "=", "\n">> }

\* f.readlines(): the lines of the text, each with its newline
RECURSIVE ReadLines(_)
ReadLines(text) ==
    IF Len(text) = 0 THEN <<>>
    ELSE LET end == IF \E i \in 1..Len(text) : text[i] = "\n"
                    THEN CHOOSE i \in 1..Len(text) :
                            text[i] = "\n" /\ \A j \in 1..(i - 1) : text[j] # "\n"
                    ELSE Len(text)
         IN  <<SubSeq(text, 1, end)>> \o ReadLines(SubSeq(text, end + 1, Len(text)))

ConfigInit ==
    /\ harness = "configure_env"
    /\ pc = "cfg_input"
    /\ idx = 1
    /\ results = <<>>
    /\ success = FALSE
    /\ exit_code = NotExited
    /\ output = <<>>
    /\ served = <<>>
    /\ StreamIdle
    /\ fs_creds \in [{DefaultCredsPath, <<"creds.json">>} -> CredsFiles]
    /\ fs_env \in {NoFile} \cup {File(t) : t \in EnvTexts}
    /\ fs_example \in {NoFile} \cup {File(t) : t \in ExampleTexts}
    /\ creds_path = <<>>
    /\ gcp_service_account_str = <<>>
    /\ env_content = <<>>
    /\ updated_env_content = <<>>
    /\ found_key = FALSE
    /\ line_no = 0

\* print an error and return
ConfigReturn(printed) ==
    /\ output' = output \o printed
    /\ pc' = "cfg_returned"

\* lines 7-22: the prompt, the default path, the test that the file exists
ConfigAskPath ==
    /\ pc = "cfg_input"
    /\ \E typed \in TypedPaths :
          /\ creds_path' = IF Len(StrStrip(typed)) = 0 THEN DefaultCredsPath
                           ELSE StrStrip(typed)
          /\ IF ~fs_creds[creds_path'].exists
             THEN ConfigReturn(<<Message("Configurator"),
                                 Message("Credentials file not found")>>)
             ELSE /\ pc' = "cfg_creds"
                  /\ output' = Append(output, Message("Configurator"))
    /\ UNCHANGED <<fs_creds, fs_env, fs_example, gcp_service_account_str, env_content,
                   updated_env_content, found_key, line_no>>
    /\ UNCHANGED harnessVars

\* lines 24-35: json.load, json.dumps; a JSON error or an IOError ends the run
ConfigReadCreds ==
    /\ pc = "cfg_creds"
    /\ \E io_error \in BOOLEAN :
          LET creds_json == IF io_error THEN Raise("IOError")
                            ELSE JsonLoad(fs_creds[creds_path])
          IN  IF IsRaise(creds_json)
              THEN /\ ConfigReturn(<<Message("Failed to read or parse the credentials file")>>)
                   /\ UNCHANGED gcp_service_account_str
              ELSE /\ gcp_service_account_str' = JsonDumps(creds_json)
                   /\ output' = Append(output, Message("Successfully read"))
                   /\ pc' = "cfg_env"
    /\ UNCHANGED <<fs_creds, fs_env, fs_example, creds_path, env_content,
                   updated_env_content, found_key, line_no>>
    /\ UNCHANGED harnessVars

\* lines 37-47: .env is created from .env.example when it does not exist
ConfigEnsureEnv ==
    /\ pc = "cfg_env"
    /\ IF ~fs_env.exists
       THEN IF ~fs_example.exists
            THEN /\ ConfigReturn(<<Message(".env.example not found")>>)
                 /\ UNCHANGED fs_env
            ELSE /\ fs_env' = fs_example
                 /\ output' = Append(output, Message("Created .env"))
                 /\ pc' = "cfg_read"
       ELSE /\ pc' = "cfg_read"
            /\ UNCHANGED <<fs_env, output>>
    /\ UNCHANGED <<fs_creds, fs_example, creds_path, gcp_service_account_str,
                   env_content, updated_env_content, found_key, line_no>>
    /\ UNCHANGED harnessVars

\* lines 49-59: f.readlines(); updated_env_content = []; found_key = False
ConfigReadEnv ==
    /\ pc = "cfg_read"
    /\ \E io_error \in BOOLEAN :
          IF io_error
          THEN /\ ConfigReturn(<<Message("Could not read .env")>>)
               /\ UNCHANGED <<env_content, updated_env_content, found_key, line_no>>
          ELSE /\ env_content' = ReadLines(fs_env.text)
               /\ updated_env_content' = <<>>
               /\ found_key' = FALSE
               /\ line_no' = 1
               /\ pc' = "cfg_loop"
               /\ UNCHANGED output
    /\ UNCHANGED <<fs_creds, fs_env, fs_example, creds_path, gcp_service_account_str>>
    /\ UNCHANGED harnessVars

\* lines 61-65: what one pass of the loop appends, and found_key after it
UpdateLine(line, value, found) ==
    IF StartsWithKey(StrStrip(line))
    THEN [lines |-> <<KeyLine(value)>>, found |-> TRUE]
    ELSE [lines |-> <<line>>, found |-> found]

\* lines 60-65: one pass of `for line in env_content`
ConfigLine ==
    /\ pc = "cfg_loop"
    /\ line_no <= Len(env_content)
    /\ LET step == UpdateLine(env_content[line_no], gcp_service_account_str, found_key)
       IN  /\ updated_env_content' = updated_env_content \o step.lines
           /\ found_key' = step.found
    /\ line_no' = line_no + 1
    /\ UNCHANGED <<fs_creds, fs_env, fs_example, creds_path, gcp_service_account_str,
                   env_content, pc, output>>
    /\ UNCHANGED harnessVars

\* lines 67-68: after the loop, the key is appended when no line had it
ConfigAppendMissing ==
    /\ pc = "cfg_loop"
    /\ line_no > Len(env_content)
    /\ updated_env_content' =
          IF ~found_key
          THEN Append(updated_env_content, <<"\n">> \o KeyLine(gcp_service_account_str))
          ELSE updated_env_content
    /\ pc' = "cfg_write"
    /\ UNCHANGED <<fs_creds, fs_env, fs_example, creds_path, gcp_service_account_str,
                   env_content, found_key, line_no, output>>
    /\ UNCHANGED harnessVars

\* lines 70-79: open(env_path, 'w') truncates the file and writelines fills
\* it; an IOError of open leaves the file as it was, one of the write leaves
\* it truncated
ConfigWrite ==
    /\ pc = "cfg_write"
    /\ \E io_error \in {"none", "open", "write"} :
          IF io_error = "none"
          THEN /\ fs_env' = File(WriteLines(updated_env_content))
               /\ output' = output \o <<Message("Successfully configured .env"),
                                        Message("You can now start the application")>>
               /\ pc' = "cfg_done"
          ELSE /\ fs_env' = IF io_error = "open" THEN fs_env ELSE File(<<>>)
               /\ ConfigReturn(<<Message("Could not write to .env")>>)
    /\ UNCHANGED <<fs_creds, fs_example, creds_path, gcp_service_account_str,
                   env_content, updated_env_content, found_key, line_no>>
    /\ UNCHANGED harnessVars

ConfigNext ==
    \/ ConfigAskPath
    \/ ConfigReadCreds
    \/ ConfigEnsureEnv
    \/ ConfigReadEnv
    \/ ConfigLine
    \/ ConfigAppendMissing
    \/ ConfigWrite

ConfigSpec == ConfigInit /\ [][ConfigNext]_vars

-----------------------------------------------------------------------------
(* Vocabulary of the properties                                            *)

StreamingName == "Streaming Completion"

CompletionNames == {"Simple Completion", "Thinking Mode", "Multi-turn Conversation"}

IsDone(line) == ~line.blank /\ line.prefix = "data: " /\ line.payload.text = "[DONE]"

\* the terminator frame is among the lines handed out
Terminated == \E i \in 1..Len(wire) : IsDone(wire[i])

\* the delta.content fragment a line carries, read off the line itself
FragmentOf(line) ==
    IF line.blank \/ line.prefix # "data: " \/ ~line.payload.valid THEN <<>>
    ELSE LET j == line.payload.json IN
         IF j.t # "obj" \/ "choices" \notin DOMAIN j.f THEN <<>>
         ELSE IF Len(j.f["choices"].a) = 0 THEN <<>>
         ELSE LET d == j.f["choices"].a[1].f["delta"] IN
              IF "content" \notin DOMAIN d.f THEN <<>>
              ELSE IF d.f["content"].t # "str" THEN <<>>
              ELSE d.f["content"].v

\* the fragments of the frames of w that precede the terminator, in arrival order
RECURSIVE FragmentList(_)
FragmentList(w) ==
    IF Len(w) = 0 \/ IsDone(Head(w)) THEN <<>>
    ELSE IF FragmentOf(Head(w)) = <<>> THEN FragmentList(Tail(w))
    ELSE <<FragmentOf(Head(w))>> \o FragmentList(Tail(w))

\* their concatenation
RECURSIVE Concat(_)
Concat(fs) == IF Len(fs) = 0 THEN <<>> ELSE Head(fs) \o Concat(Tail(fs))

ExpectedText(w) == Concat(FragmentList(w))

AllPassed(res) == \A i \in 1..Len(res) : res[i][2]

Interrupted == \E k \in 1..Len(output) : output[k] = Message("Testes interrompidos pelo usuario")

Failed == \E k \in 1..Len(output) : output[k].name = "Erro inesperado"

\* the run was cut short
Aborted == Interrupted \/ Failed

\* the run went through the whole of run_all_tests
Completed == ~Aborted /\ Len(results) = Len(Catalogue)

\* the scenario that ran last is the one named, and served holds its answers
JustRan(h, name) ==
    /\ harness = h
    /\ phase = "idle"
    /\ Len(results) > 0
    /\ results[Len(results)][1] = name
    /\ Len(served) > 0

LastVerdict == results[Len(results)][2]

\* a step in which the streaming scenario returns and its verdict is recorded
StreamingRecorded ==
    /\ Len(results') = Len(results) + 1
    /\ results'[Len(results')][1] = StreamingName

-----------------------------------------------------------------------------
(* C1.  The streaming scenario is recorded as passed if and only if the    *)
(* terminator frame `data: [DONE]` was observed and chunkCount > 0; a      *)
(* stream that closes without the terminator is never recorded as passed.  *)
C1_PassIffTerminated ==
    [][ StreamingRecorded =>
          (results'[Len(results')][2] <=> (Terminated /\ chunks_received > 0)) ]_vars

(* C2.  When the streaming loop has ended and the text is joined,          *)
(* full_content is the concatenation, in arrival order, of the             *)
(* delta.content fragments of the data frames that arrived before the      *)
(* terminator: nothing reordered, dropped, duplicated or trimmed.          *)
C2_TextIsConcatenation ==
    phase = "joined" => full_content = Str(ExpectedText(wire))

\* two different fragments, one with white space, arrived and were joined
C2_Witness ==
    /\ harness = "api"
    /\ phase = "joined"
    /\ loopExit = "break"
    /\ chunks_received = 3
    /\ full_content = Str(<<" ", "b", "a", "a">>)

(* C3.  A `data: ` line that is not JSON does not abort the loop: the      *)
(* pass over it leaves the accumulated parts and chunkCount as they were   *)
(* and goes on to the next line; and a stream with such a line among       *)
(* valid frames has accumulated all of them when the loop ends, and ends   *)
(* by the terminator when `data: [DONE]` is the last line read.            *)
C3_MalformedSkipped ==
    /\ [][ ( /\ pc = "running" /\ pc' = "running"
             /\ harness = "api"
             /\ phase = "body"
             /\ CurrentLine = MalformedLine )
           => ( /\ phase' = "reading"
                /\ wire' = wire
                /\ content_parts' = content_parts
                /\ chunks_received' = chunks_received
                /\ results' = results ) ]_vars
    /\ [] ( ( /\ harness = "api"
              /\ phase \in {"looped", "joined"}
              /\ \E i \in 1..Len(wire) : wire[i] = MalformedLine )
            => ( /\ content_parts = [i \in 1..Len(FragmentList(wire)) |->
                                        Str(FragmentList(wire)[i])]
                 /\ chunks_received = Len(FragmentList(wire))
                 /\ (IsDone(CurrentLine) => loopExit = "break") ) )

\* a malformed line between two content frames, then the terminator
C3_Witness ==
    /\ harness = "api"
    /\ phase = "joined"
    /\ loopExit = "break"
    /\ Len(wire) = 4
    /\ wire[2] = MalformedLine
    /\ FragmentOf(wire[1]) # <<>>
    /\ FragmentOf(wire[3]) # <<>>
    /\ chunks_received = 2

(* C4.  A streaming request whose server never sends the terminator and    *)
(* never closes the connection has ended, as a failed scenario, once the   *)
(* configured timeout has passed: the harness is not in the line loop      *)
(* after more than TIMEOUT time units.                                     *)
C4_EndsWithinTimeout ==
    (pc = "running" /\ harness = "api" /\ phase \in {"reading", "body"})
        => elapsed <= TIMEOUT

(* C5.  run_all_tests executes every scenario of the catalogue once, in    *)
(* declaration order, whatever the earlier scenarios returned; an error    *)
(* raised inside a scenario becomes the result False and never reaches     *)
(* main; a run that is not cut short ends with one result per scenario.    *)
C5_ScenarioIsolation ==
    /\ Len(results) = idx - 1
    /\ \A i \in 1..Len(results) : results[i][1] = Catalogue[i]
    /\ (pc = "summarised" \/ (pc = "exited" /\ ~Aborted))
          => Len(results) = Len(Catalogue)
    /\ \A k \in 1..Len(output) :
          output[k].name = "Erro inesperado" => output[k].detail = "OSError"

\* the first scenario failed on a transport error and the last one still ran
C5_Witness ==
    /\ pc = "summarised"
    /\ Len(results) = Len(Catalogue)
    /\ ~results[1][2]
    /\ output[3] = Marker(IF harness = "api" THEN "Health Check" ELSE "SDK - List Models",
                          FALSE, "")
    /\ results[Len(results)][2]

(* C6.  The verdict of run_all_tests is the conjunction of the scenario    *)
(* results; the process exits with 0 exactly when the run completed and    *)
(* every scenario passed, and with 1 in every other case.                  *)
C6_ExitStatus ==
    /\ pc = "summarised" => (success <=> AllPassed(results))
    /\ pc = "exited" =>
          /\ exit_code \in {EXIT_OK, EXIT_FAIL}
          /\ exit_code = EXIT_OK <=> (Completed /\ AllPassed(results))

\* a complete run in which every scenario passed has exited with 0
C6_Witness ==
    /\ pc = "exited"
    /\ exit_code = EXIT_OK
    /\ Len(results) = Len(Catalogue)

(* C7.  A non-streaming completion scenario (simple_completion,            *)
(* reasoning_mode, multi_turn) is recorded as passed only if the response  *)
(* status is 200 and choices[0].message.content is a non-empty string.     *)
C7_PassNeedsContent ==
    \A name \in CompletionNames :
        (JustRan("api", name) /\ LastVerdict) =>
            /\ served[1].kind = "ok"
            /\ served[1].status_code = 200
            /\ LET content == MessageContent(ResponseJson(served[1])) IN
               content.t = "str" /\ Len(content.v) > 0

(* C8.  The usage_reporting scenario is recorded as passed exactly when    *)
(* the response carries a usage object with                                *)
(* total_tokens = prompt_tokens + completion_tokens.                       *)
C8_UsageAdditive ==
    JustRan("sdk", "Token Usage Info") =>
        ( LastVerdict <=>
            /\ served[1].kind = "ok"
            /\ served[1].json.f["usage"] # None
            /\ LET u == served[1].json.f["usage"].f IN
               u["total_tokens"].v = u["prompt_tokens"].v + u["completion_tokens"].v )

(* C9.  When a run is cut short, by a user interrupt or by an unexpected   *)
(* error, after some scenarios have completed, the summary lines of the    *)
(* scenarios completed so far have been printed when the process exits.    *)
C9_PartialSummary ==
    (pc = "exited" /\ Aborted /\ Len(results) > 0) =>
        \A i \in 1..Len(results) :
            \E k \in 1..Len(output) : output[k] = SummaryLine(results[i][1], results[i][2])

(* C10.  The health scenario is recorded as passed if and only if          *)
(* GET /health answered 200 with a JSON body that has a status field.      *)
C10_HealthNeedsStatus ==
    JustRan("api", "Health Check") =>
        ( LastVerdict <=>
            /\ served[1].kind = "ok"
            /\ served[1].status_code = 200
            /\ served[1].valid
            /\ served[1].json.t = "obj"
            /\ "status" \in DOMAIN served[1].json.f )

-----------------------------------------------------------------------------
\* the scenario of the running harness that lists the models
ModelsName == IF harness = "api" THEN "Models List" ELSE "List Models"

\* the entries of the model list in the answer, read off the answer itself
ListedEntries(resp) ==
    IF resp.kind # "ok" \/ resp.status_code # 200 \/ ~resp.valid THEN <<>>
    ELSE IF resp.json.t # "obj" \/ "data" \notin DOMAIN resp.json.f THEN <<>>
    ELSE IF resp.json.f["data"].t # "arr" THEN <<>>
    ELSE resp.json.f["data"].a

\* the answer has status 200 and the target model is the id of one entry
ListsTarget(resp) ==
    \E i \in 1..Len(ListedEntries(resp)) :
        /\ ListedEntries(resp)[i].t = "obj"
        /\ "id" \in DOMAIN ListedEntries(resp)[i].f
        /\ ListedEntries(resp)[i].f["id"] = Str(<<TARGET_MODEL>>)

\* every entry has an id, and the first three ids are strings
EntriesWellFormed(resp) ==
    \A i \in 1..Len(ListedEntries(resp)) :
        /\ ListedEntries(resp)[i].t = "obj"
        /\ "id" \in DOMAIN ListedEntries(resp)[i].f
        /\ (i <= 3 => ListedEntries(resp)[i].f["id"].t = "str")

(* C11, as stated.  The models scenario is recorded as passed if and only  *)
(* if GET /v1/models answered 200 and the target model is the id of one    *)
(* of the entries of the returned list.                                    *)
C11_PassIffListed ==
    (JustRan(harness, ModelsName) /\ pc = "running") =>
        (LastVerdict <=> ListsTarget(served[1]))

(* C11, amended.  The models scenario is recorded as passed if and only if *)
(* the answer has status 200, the target model is the id of one entry of   *)
(* the list, every entry of the list has an id and the first three ids are *)
(* strings; a missing list, a non-200 answer and a request error fail.     *)
C11_PassIffListedWellFormed ==
    (JustRan(harness, ModelsName) /\ pc = "running") =>
        (LastVerdict <=> (ListsTarget(served[1]) /\ EntriesWellFormed(served[1])))

\* the raw harness got a list of two models with the target among them
C11_Witness ==
    /\ JustRan("api", "Models List")
    /\ pc = "running"
    /\ Len(ListedEntries(served[1])) = 2
    /\ EntriesWellFormed(served[1])
    /\ LastVerdict

(* C12.  Once the line `data: [DONE]` has been read, the streaming loop of *)
(* the raw harness takes no further line from the stream, and as long as   *)
(* the scenario runs the accumulated parts and chunkCount stay as they     *)
(* were when the terminator arrived.                                       *)
C12_NothingAfterDone ==
    [][ (harness = "api" /\ Terminated /\ phase' # "idle")
          => ( /\ wire' = wire
               /\ content_parts' = content_parts
               /\ chunks_received' = chunks_received ) ]_vars

\* the terminator came second, after one content frame, and the loop was left
\* while the server could still have sent lines
C12_Witness ==
    /\ harness = "api"
    /\ phase = "looped"
    /\ loopExit = "break"
    /\ Len(wire) = 2
    /\ Len(wire) < MaxLines
    /\ chunks_received = 1

(* C13.  In both harnesses a chunk is appended to the accumulated parts    *)
(* and counted exactly when its delta content is non-null and non-empty:   *)
(* at every step every accumulated part is a non-empty fragment and        *)
(* chunkCount is the number of accumulated parts.                          *)
C13_CountsNonEmptyFragments ==
    /\ chunks_received = Len(content_parts)
    /\ \A i \in 1..Len(content_parts) :
          content_parts[i].t = "str" /\ Len(content_parts[i].v) > 0

\* the name under which the scenario recorded as `name` prints its own marker
OwnMarker(name) == IF harness = "api" THEN name ELSE "SDK - " \o name

(* C15.  The PASS/FAIL marker a scenario prints under its own name agrees  *)
(* with the verdict it returns, which is the one recorded for the summary  *)
(* and the exit status: in the step that records a scenario's result,      *)
(* every marker printed under the scenario's name shows that result.       *)
C15_MarkerAgreesWithVerdict ==
    [][ Len(results') = Len(results) + 1
          => \A k \in (Len(output) + 1)..Len(output') :
                ( /\ output'[k].kind = "result"
                  /\ output'[k].name = OwnMarker(results'[Len(results')][1]) )
                => output'[k].ok = results'[Len(results')][2] ]_vars

-----------------------------------------------------------------------------
\* a line of the store that sets GCP_SERVICE_ACCOUNT
SetsKey(line) == StartsWithKey(StrStrip(line))

KeyLinesOf(lines) == SelectSeq(lines, LAMBDA l : SetsKey(l))

\* what the line gives the key: the text after the = sign, without the quotes
ValueOf(line) ==
    LET v == SubSeq(StrStrip(line), 3, Len(StrStrip(line)))
    IN  IF Len(v) >= 2 /\ v[1] = "'" /\ v[Len(v)] = "'" THEN SubSeq(v, 2, Len(v) - 1)
        ELSE v

\* the other lines, without their newline; empty lines are layout
OtherLines(lines) ==
    LET others == SelectSeq(lines, LAMBDA l : ~SetsKey(l) /\ Len(StrStrip(l)) > 0)
    IN  [i \in 1..Len(others) |-> RStrip(others[i])]

\* the value every line of the key holds is the compact JSON of the credentials
KeyLinesHoldCredentials ==
    \A i \in 1..Len(ReadLines(fs_env.text)) :
        SetsKey(ReadLines(fs_env.text)[i])
        => ValueOf(ReadLines(fs_env.text)[i]) = JsonDumps(JsonLoad(fs_creds[creds_path]))

(* C14.  After a successful run of configure_env.main the store .env has   *)
(* exactly one line that sets GCP_SERVICE_ACCOUNT, it holds the compact    *)
(* JSON of the credential file, and the other lines are the lines the      *)
(* store had before the run, in their order; whether the store had zero,   *)
(* one or several lines of the key before.                                 *)
C14_SingleKeyLine ==
    pc = "cfg_done" =>
        /\ Len(KeyLinesOf(ReadLines(fs_env.text))) = 1
        /\ KeyLinesHoldCredentials
        /\ OtherLines(ReadLines(fs_env.text)) = OtherLines(env_content)

====
